---- MODULE Spec2Model ----
(***************************************************************************)
(* A state-machine model of exa.core.data.Data (src/exa/core/data.py): the *)
(* lazily populated, validated, persistable table wrapper.                 *)
(*                                                                         *)
(* One live Data object (`self`) and the files of one file system (`disk`) *)
(* are the state.  Every method of Data is a pure operator from the object *)
(* (and the disk) to the object after the call, the error it raised and    *)
(* what it returned; every action applies one such operator to `self`.     *)
(***************************************************************************)
EXTENDS Integers, Sequences, FiniteSets, TLC

VARIABLES self, disk, last, scope, trip

vars == <<self, disk, last, scope, trip>>

(***************************************************************************)
(* Bounds of the model.                                                    *)
(***************************************************************************)
MaxRows == 2

(***************************************************************************)
(* Tables.  A payload is None, an opaque (non-tabular) value or a table.   *)
(* A table has a set of columns, ordered rows, one dtype per column and    *)
(* the name of its row index.  Cells and dtypes of absent columns are      *)
(* blank (0, "absent") so that equal tables are equal records.  The order  *)
(* of the columns is not represented: no check of the code reads it.       *)
(***************************************************************************)
Cols == {"a", "b"}
Vals == 1..2
Types == {"int", "str"}

NoneP == [kind |-> "none", cols |-> {}, rows |-> <<>>,
          enc |-> [c \in Cols |-> "absent"], iname |-> "None"]

Opaque == [NoneP EXCEPT !.kind = "opaque"]

IsTable(p) == p.kind = "table"

RowsOver(cs) == {r \in [Cols -> {0} \cup Vals] : \A c \in Cols : (r[c] = 0) <=> (c \notin cs)}

SeqsUpTo(S, n) == UNION {[1..k -> S] : k \in 0..n}

RawTable(cs, rs) ==
    [kind |-> "table", cols |-> cs, rows |-> rs,
     enc |-> [c \in Cols |-> IF c \in cs THEN "int" ELSE "absent"],
     iname |-> "None"]

Tables(colsets, n) == UNION {{RawTable(cs, rs) : rs \in SeqsUpTo(RowsOver(cs), n)} : cs \in colsets}

(***************************************************************************)
(* Errors.  NoErr is "the call returned".                                  *)
(***************************************************************************)
Err(kind, missing, nm) == [kind |-> kind, missing |-> missing, name |-> nm]

NoErr == Err("none", {}, "")

TraitError(msg) == Err(msg, {}, "")

RequiredColumnError(missing, nm) == Err("RequiredColumnError", missing, nm)

(***************************************************************************)
(* Values a caller may assign to `source`.  A callable is known by its     *)
(* __module__ path and, when it has one, its __name__ (a functools.partial *)
(* has none); a string is the list of its dot-separated parts.             *)
(***************************************************************************)
NoSource == [kind |-> "none", path |-> <<>>, named |-> FALSE]

Function(mod, nm) == [kind |-> "callable", path |-> Append(mod, nm), named |-> TRUE]

Partial(mod, nm) == [kind |-> "callable", path |-> Append(mod, nm), named |-> FALSE]

DottedString(parts) == [kind |-> "str", path |-> parts, named |-> FALSE]

NotCallable == [kind |-> "other", path |-> <<>>, named |-> FALSE]

Provider == <<"provider">>

make_ab == Function(Provider, "make_ab")
make_dup == Function(Provider, "make_dup")
make_none == Function(Provider, "<lambda>")
make_raise == Function(Provider, "make_raise")
make_partial == Partial(<<"functools">>, "partial")

\* The importable modules and their attributes: what importlib.import_module
\* and getattr find.  "version" is an attribute that is not callable.
HasAttr(mod, nm) == mod = Provider /\ nm \in {"make_ab", "make_dup", "version"}

ModuleAttr(mod, nm) == IF nm = "version" THEN NotCallable ELSE Function(mod, nm)

Row(x, y) == [c \in Cols |-> IF c = "a" THEN x ELSE y]

\* What each callable produces when called as f(*call_args, **call_kws).
CallSource(f, args, kws) ==
    IF f = make_ab THEN RawTable({"a", "b"}, <<Row(1, 1), Row(2, 1 + Len(args))>>)
    ELSE IF f = make_dup THEN RawTable({"a", "b"}, <<Row(1, 1), Row(1, 1 + Cardinality(kws))>>)
    ELSE IF f = make_partial THEN RawTable({"a"}, <<Row(1, 0), Row(2, 0)>>)
    ELSE NoneP

CallRaises(f) == f = make_raise

\* Data.__call__: the fallback when no source is set; logs and returns None.
__call__(o, args, kws) == NoneP

(***************************************************************************)
(* The Data object: its traits (lines 27-37) and the cache _data.          *)
(* columns and indexes are modelled as sets: the code only tests           *)
(* membership in them.  categories maps a column to its natural type, or   *)
(* to "none" when the column is not declared categorical.  meta and        *)
(* call_kws are sets of <<key, value>> pairs.                              *)
(***************************************************************************)
NoCategories == [c \in Cols |-> "none"]

Data ==
    [name |-> "", meta |-> {}, source |-> NoSource, call_args |-> <<>>,
     call_kws |-> {}, cardinal |-> "", index |-> "", indexes |-> {},
     columns |-> {}, categories |-> NoCategories, _data |-> NoneP]

Traits == {"call_args", "call_kws", "cardinal", "categories", "columns",
           "index", "indexes", "meta", "name", "source"}

\* The configuration of an object: every trait, not the cache.
trait_items(o) == [o EXCEPT !._data = NoneP]

\* A variant of _validate_source that checks a dotted string and stores it
\* as given.
validate_source_as_given(o, value) ==
    LET isStr == value.kind = "str"
        n == Len(value.path)
        mod == IF n = 0 THEN <<>> ELSE SubSeq(value.path, 1, n - 1)
        found == isStr /\ n > 0 /\ HasAttr(mod, value.path[n])
        src == IF found THEN ModuleAttr(mod, value.path[n]) ELSE value
    IN  IF isStr /\ ~found THEN [err |-> TraitError("source must be importable"), value |-> value]
        ELSE IF src.kind # "callable" THEN [err |-> TraitError("source must be callable"), value |-> value]
        ELSE [err |-> NoErr, value |-> value]

\* @validate('source'), lines 73-92.  A string is split at its dots, the
\* module imported and the attribute looked up; the result must be callable.
_validate_source(o, value) ==
    LET isStr == value.kind = "str"
        n == Len(value.path)
        mod == IF n = 0 THEN <<>> ELSE SubSeq(value.path, 1, n - 1)
        found == isStr /\ n > 0 /\ HasAttr(mod, value.path[n])
        src == IF found THEN ModuleAttr(mod, value.path[n]) ELSE value
    IN  IF isStr /\ ~found THEN [err |-> TraitError("source must be importable"), value |-> value]
        ELSE IF src.kind # "callable" THEN [err |-> TraitError("source must be callable"), value |-> value]
        ELSE [err |-> NoErr, value |-> src]

\* A variant of _observe_source that forgets the call arguments.
observe_source_data_only(o, new) ==
    IF new = NoSource THEN [o EXCEPT !._data = NoneP] ELSE o

\* @observe('source'), lines 94-102.
_observe_source(o, new) ==
    IF new = NoSource
    THEN [o EXCEPT !._data = NoneP, !.call_args = <<>>, !.call_kws = {}]
    ELSE o

\* A variant of _validate_cardinal that lets the empty string through.
validate_cardinal_unless_empty(o, c) ==
    IF o.indexes # {} /\ c # "" /\ c \notin o.indexes
    THEN [err |-> TraitError("cardinal not in indexes"), value |-> c]
    ELSE [err |-> NoErr, value |-> c]

\* @validate('cardinal'), lines 104-116.
_validate_cardinal(o, c) ==
    IF o.indexes # {} /\ c \notin o.indexes
    THEN [err |-> TraitError("cardinal not in indexes"), value |-> c]
    ELSE [err |-> NoErr, value |-> c]

\* Assignment to a trait, as traitlets performs it: None for a trait that
\* allows it skips validation; the @validate method (if any) runs on every
\* assignment and a failure leaves the trait as it was; the @observe method
\* runs only when the new value differs from the old one.
SetTrait(o, attr, value) ==
    LET v == IF attr = "source" /\ value # NoSource THEN _validate_source(o, value)
             ELSE IF attr = "cardinal" THEN _validate_cardinal(o, value)
             ELSE [err |-> NoErr, value |-> value]
        o1 == [o EXCEPT ![attr] = v.value]
    IN  IF v.err # NoErr THEN [o |-> o, err |-> v.err]
        ELSE IF attr = "source" /\ v.value # o.source
             THEN [o |-> _observe_source(o1, v.value), err |-> NoErr]
        ELSE [o |-> o1, err |-> NoErr]

(***************************************************************************)
(* Categorical transcoding and validation, lines 153-169 and 248-263.      *)
(***************************************************************************)
\* Series.astype: 'category' keeps the values' type under a categorical
\* encoding; a natural type replaces the encoding by that type.
astype(dtype, conv) ==
    IF conv # "category" THEN conv
    ELSE IF dtype \in {"int", "cat_int"} THEN "cat_int"
    ELSE "cat_str"

IsCategorical(dtype) == dtype \in {"cat_int", "cat_str"}

\* A variant of _set_categories whose reverse casts to the other natural
\* type.
set_categories_other_type(o, df, reverse) ==
    [df EXCEPT !.enc =
        [col \in Cols |->
            IF o.categories[col] # "none" /\ col \in df.cols
            THEN astype(df.enc[col],
                        IF reverse THEN CHOOSE t \in Types : t # o.categories[col]
                        ELSE "category")
            ELSE df.enc[col]]]

\* _set_categories on a table, lines 248-263.
_set_categories(o, df, reverse) ==
    [df EXCEPT !.enc =
        [col \in Cols |->
            IF o.categories[col] # "none" /\ col \in df.cols
            THEN astype(df.enc[col], IF reverse THEN o.categories[col] ELSE "category")
            ELSE df.enc[col]]]

\* _set_categories on a payload that is no table reads df.columns for the
\* first declared category and raises AttributeError (line 257).
SetCategoriesRaises(o, df) == ~IsTable(df) /\ o.categories # NoCategories

\* A variant of duplicated() that flags two rows agreeing on some subset
\* column.
duplicated_any(df, subset) ==
    \E i, j \in 1..Len(df.rows) :
        i < j /\ \E c \in subset : df.rows[i][c] = df.rows[j][c]

\* DataFrame.duplicated(subset).any(): two rows agree on every subset column.
duplicated(df, subset) ==
    \E i, j \in 1..Len(df.rows) :
        i < j /\ \A c \in subset : df.rows[i][c] = df.rows[j][c]

\* A variant of _validate_data() that reports every declared column as
\* missing when one is.
validate_data_all_declared(o, df, reverse) ==
    LET missing == o.columns \ df.cols
        df1 == _set_categories(o, df, reverse)
        df2 == [df1 EXCEPT !.iname = o.index]
    IN  IF ~IsTable(df) THEN [err |-> NoErr, df |-> df]
        ELSE IF missing # {} THEN [err |-> RequiredColumnError(o.columns, o.name), df |-> df]
        ELSE IF o.indexes # {} /\ ~(o.indexes \subseteq df.cols)
             THEN [err |-> Err("KeyError", o.indexes \ df.cols, ""), df |-> df2]
        ELSE IF o.indexes # {} /\ duplicated(df2, o.indexes)
             THEN [err |-> TraitError("duplicates in indexes"), df |-> df2]
        ELSE [err |-> NoErr, df |-> df2]

\* _validate_data, lines 153-169.  `df` in the result is the payload as the
\* call left it: the transcoding and the index name are written in place
\* before the duplicate check can raise.
_validate_data(o, df, reverse) ==
    LET missing == o.columns \ df.cols
        df1 == _set_categories(o, df, reverse)
        df2 == [df1 EXCEPT !.iname = o.index]
    IN  IF ~IsTable(df) THEN [err |-> NoErr, df |-> df]
        ELSE IF missing # {} THEN [err |-> RequiredColumnError(missing, o.name), df |-> df]
        ELSE IF o.indexes # {} /\ ~(o.indexes \subseteq df.cols)
             THEN [err |-> Err("KeyError", o.indexes \ df.cols, ""), df |-> df2]
        ELSE IF o.indexes # {} /\ duplicated(df2, o.indexes)
             THEN [err |-> TraitError("duplicates in indexes"), df |-> df2]
        ELSE [err |-> NoErr, df |-> df2]

\* A variant of data() that never reads the cache.
data_uncached(o, df, cache) ==
    LET call == df = NoneP
        invoked == call /\ o.source # NoSource
        d2 == IF ~call THEN df
              ELSE IF invoked THEN CallSource(o.source, o.call_args, o.call_kws)
              ELSE __call__(o, o.call_args, o.call_kws)
        v == _validate_data(o, d2, FALSE)
    IN  IF invoked /\ CallRaises(o.source)
        THEN [o |-> o, err |-> Err("SourceError", {}, ""), ret |-> NoneP, invoked |-> TRUE]
        ELSE IF v.err # NoErr
        THEN [o |-> o, err |-> v.err, ret |-> NoneP, invoked |-> invoked]
        ELSE [o |-> [o EXCEPT !._data = v.df], err |-> NoErr, ret |-> v.df, invoked |-> invoked]

\* A variant of data() that reads the cache whatever the cache flag says.
data_ignoring_flag(o, df, cache) ==
    LET d1 == IF df # NoneP THEN df ELSE o._data
        call == d1 = NoneP
        invoked == call /\ o.source # NoSource
        raised == invoked /\ CallRaises(o.source)
        d2 == IF ~call THEN d1
              ELSE IF invoked THEN CallSource(o.source, o.call_args, o.call_kws)
              ELSE __call__(o, o.call_args, o.call_kws)
        v == _validate_data(o, d2, FALSE)
        cached == df = NoneP /\ ~call
    IN  IF raised
        THEN [o |-> o, err |-> Err("SourceError", {}, ""), ret |-> NoneP, invoked |-> TRUE]
        ELSE IF v.err # NoErr
        THEN [o |-> IF cached THEN [o EXCEPT !._data = v.df] ELSE o,
              err |-> v.err, ret |-> NoneP, invoked |-> invoked]
        ELSE [o |-> [o EXCEPT !._data = v.df], err |-> NoErr, ret |-> v.df, invoked |-> invoked]

\* A variant of data() that returns a cached payload without validating it.
data_trusting_cache(o, df, cache) ==
    LET d0 == IF cache THEN o._data ELSE NoneP
        d1 == IF df # NoneP THEN df ELSE d0
        call == d1 = NoneP
        invoked == call /\ o.source # NoSource
        raised == invoked /\ CallRaises(o.source)
        d2 == IF ~call THEN d1
              ELSE IF invoked THEN CallSource(o.source, o.call_args, o.call_kws)
              ELSE __call__(o, o.call_args, o.call_kws)
        v == _validate_data(o, d2, FALSE)
        cached == df = NoneP /\ cache /\ ~call
    IN  IF raised
        THEN [o |-> o, err |-> Err("SourceError", {}, ""), ret |-> NoneP, invoked |-> TRUE]
        ELSE IF cached
        THEN [o |-> o, err |-> NoErr, ret |-> o._data, invoked |-> FALSE]
        ELSE IF v.err # NoErr
        THEN [o |-> o, err |-> v.err, ret |-> NoneP, invoked |-> invoked]
        ELSE [o |-> [o EXCEPT !._data = v.df], err |-> NoErr, ret |-> v.df, invoked |-> invoked]

\* data(df=None, cache=True), lines 129-151.  The result holds the object
\* after the call, the error raised, the payload returned and whether the
\* source was invoked.  When the candidate is the cached object itself, a
\* failed validation still leaves its in-place changes in the cache.
data(o, df, cache) ==
    LET d0 == IF cache THEN o._data ELSE NoneP
        d1 == IF df # NoneP THEN df ELSE d0
        call == d1 = NoneP
        invoked == call /\ o.source # NoSource
        raised == invoked /\ CallRaises(o.source)
        d2 == IF ~call THEN d1
              ELSE IF invoked THEN CallSource(o.source, o.call_args, o.call_kws)
              ELSE __call__(o, o.call_args, o.call_kws)
        v == _validate_data(o, d2, FALSE)
        cached == df = NoneP /\ cache /\ ~call
    IN  IF raised
        THEN [o |-> o, err |-> Err("SourceError", {}, ""), ret |-> NoneP, invoked |-> TRUE]
        ELSE IF v.err # NoErr
        THEN [o |-> IF cached THEN [o EXCEPT !._data = v.df] ELSE o,
              err |-> v.err, ret |-> NoneP, invoked |-> invoked]
        ELSE [o |-> [o EXCEPT !._data = v.df], err |-> NoErr, ret |-> v.df, invoked |-> invoked]

\* Data(df=None, **kws), lines 265-269.  HasTraits.__init__ assigns the
\* keyword traits with cross-validation held until all are set, so cardinal
\* is checked against the indexes given with it; then df is stored.
__init__(kws, df) ==
    LET vs == _validate_source(kws, kws.source)
        vc == _validate_cardinal(kws, kws.cardinal)
        o1 == [kws EXCEPT !._data = NoneP,
                          !.source = IF kws.source = NoSource THEN NoSource ELSE vs.value]
        r == data(o1, df, TRUE)
    IN  IF kws.cardinal # Data.cardinal /\ vc.err # NoErr THEN [o |-> kws, err |-> vc.err, invoked |-> FALSE]
        ELSE IF kws.source # NoSource /\ vs.err # NoErr THEN [o |-> kws, err |-> vs.err, invoked |-> FALSE]
        ELSE IF df = NoneP THEN [o |-> o1, err |-> NoErr, invoked |-> FALSE]
        ELSE [o |-> r.o, err |-> r.err, invoked |-> r.invoked]

(***************************************************************************)
(* Files.  A directory holds, per base name, a manifest <name>.yml and a   *)
(* table <name>.qet, each present or not.  "savedir" is exa.cfg.savedir;   *)
(* "None" as a name or directory argument is Python's None.                *)
(***************************************************************************)
Dirs == {"savedir", "tmp"}
FileNames == {"", "iso", "alt"}

NoYml == [exists |-> FALSE, items |-> Data]

Yml(items) == [exists |-> TRUE, items |-> items]

NoFiles == [yml |-> NoYml, qet |-> NoneP]

EmptyDisk == [f \in Dirs \X FileNames |-> NoFiles]

\* name or self.name (lines 189, 211): None and '' both fall back.
ResolveName(o, name) == IF name \in {"None", ""} THEN o.name ELSE name

\* What save() writes as the manifest (lines 220-225): every trait, with
\* source replaced by "module.name", or left out when it is None.
Manifest(o) ==
    [trait_items(o) EXCEPT !.source =
        IF o.source = NoSource THEN NoSource ELSE DottedString(o.source.path)]

\* _from_yml: the mapping parsed from a manifest; yaml.dump wrote its keys
\* in sorted order, and "source" only when one was set.
_from_yml(yml) ==
    LET keys == <<"call_args", "call_kws", "cardinal", "categories", "columns",
                  "index", "indexes", "meta", "name">>
    IN  IF yml.items.source = NoSource THEN keys ELSE Append(keys, "source")

\* for attr, vals in yml.items(): setattr(self, attr, vals)  (lines 194-195);
\* the first assignment that raises ends the loop.
RECURSIVE ApplyItems(_, _, _, _)
ApplyItems(o, items, keys, i) ==
    IF i > Len(keys) THEN [o |-> o, err |-> NoErr]
    ELSE LET r == SetTrait(o, keys[i], items[keys[i]])
         IN  IF r.err # NoErr THEN r ELSE ApplyItems(r.o, items, keys, i + 1)

\* pd.read_parquet(path, columns=cs): only the listed columns are read, an
\* empty list reads none.  The stored dtypes and index name are kept.
read_parquet(df, cs) ==
    [df EXCEPT !.cols = df.cols \cap cs,
               !.rows = [i \in 1..Len(df.rows) |-> [c \in Cols |-> IF c \in cs THEN df.rows[i][c] ELSE 0]],
               !.enc = [c \in Cols |-> IF c \in cs THEN df.enc[c] ELSE "absent"]]

\* save(name, directory), lines 207-228.  io is the outcome of the file
\* system: "ok", or the write of the table ("qet") or of the manifest
\* ("yml") fails with OSError.
save(o, d, name, directory, io) ==
    LET nm == ResolveName(o, name)
        adir == IF directory = "None" THEN "savedir" ELSE directory
        r == data(o, NoneP, TRUE)
        tab == IsTable(r.ret)
        d1 == IF tab THEN [d EXCEPT ![<<adir, nm>>].qet = r.ret] ELSE d
        o1 == IF tab THEN [r.o EXCEPT !._data = NoneP] ELSE r.o
        d2 == [d1 EXCEPT ![<<adir, nm>>].yml = Yml(Manifest(o1))]
        r2 == data(o1, r.ret, TRUE)
    IN  IF r.err # NoErr THEN [o |-> r.o, d |-> d, err |-> r.err, invoked |-> r.invoked]
        ELSE IF tab /\ io = "qet" THEN [o |-> r.o, d |-> d, err |-> Err("OSError", {}, ""), invoked |-> r.invoked]
        ELSE IF o1.source # NoSource /\ ~o1.source.named
             THEN [o |-> o1, d |-> d1, err |-> Err("AttributeError", {}, ""), invoked |-> r.invoked]
        ELSE IF io = "yml" THEN [o |-> o1, d |-> d1, err |-> Err("OSError", {}, ""), invoked |-> r.invoked]
        ELSE IF r.ret = NoneP THEN [o |-> o1, d |-> d2, err |-> NoErr, invoked |-> r.invoked]
        ELSE [o |-> r2.o, d |-> d2, err |-> r2.err, invoked |-> r.invoked]

\* A variant of load() that validates the table it read.
load_validating(o, d, name, directory, strict) ==
    LET nm == ResolveName(o, name)
        f == d[<<directory, nm>>]
        r == IF f.yml.exists THEN ApplyItems(o, f.yml.items, _from_yml(f.yml), 1)
             ELSE [o |-> o, err |-> NoErr]
        v == _validate_data(r.o, read_parquet(f.qet, r.o.columns), FALSE)
    IN  IF directory = "None" THEN [o |-> o, err |-> Err("TypeError", {}, "")]
        ELSE IF r.err # NoErr THEN r
        ELSE IF f.qet = NoneP THEN r
        ELSE IF strict /\ ~(r.o.columns \subseteq f.qet.cols)
             THEN [o |-> r.o, err |-> Err("ArrowInvalid", r.o.columns \ f.qet.cols, "")]
        ELSE IF v.err # NoErr THEN [o |-> r.o, err |-> v.err]
        ELSE [o |-> [r.o EXCEPT !._data = v.df], err |-> NoErr]

\* A variant of load() that empties the cache when the data file is absent.
load_purging(o, d, name, directory, strict) ==
    LET nm == ResolveName(o, name)
        f == d[<<directory, nm>>]
        r == IF f.yml.exists THEN ApplyItems(o, f.yml.items, _from_yml(f.yml), 1)
             ELSE [o |-> o, err |-> NoErr]
    IN  IF directory = "None" THEN [o |-> o, err |-> Err("TypeError", {}, "")]
        ELSE IF r.err # NoErr THEN r
        ELSE IF f.qet = NoneP THEN [o |-> [r.o EXCEPT !._data = NoneP], err |-> NoErr]
        ELSE IF strict /\ ~(r.o.columns \subseteq f.qet.cols)
             THEN [o |-> r.o, err |-> Err("ArrowInvalid", r.o.columns \ f.qet.cols, "")]
        ELSE [o |-> [r.o EXCEPT !._data = read_parquet(f.qet, r.o.columns)], err |-> NoErr]

\* load(name=, directory=), lines 180-205.  Path(None) raises TypeError.
\* strict is the parquet reader's answer to a requested column the file
\* lacks: an error (TRUE) or reading the columns that exist (FALSE).
load(o, d, name, directory, strict) ==
    LET nm == ResolveName(o, name)
        f == d[<<directory, nm>>]
        r == IF f.yml.exists THEN ApplyItems(o, f.yml.items, _from_yml(f.yml), 1)
             ELSE [o |-> o, err |-> NoErr]
    IN  IF directory = "None" THEN [o |-> o, err |-> Err("TypeError", {}, "")]
        ELSE IF r.err # NoErr THEN r
        ELSE IF f.qet = NoneP THEN r
        ELSE IF strict /\ ~(r.o.columns \subseteq f.qet.cols)
             THEN [o |-> r.o, err |-> Err("ArrowInvalid", r.o.columns \ f.qet.cols, "")]
        ELSE [o |-> [r.o EXCEPT !._data = read_parquet(f.qet, r.o.columns)], err |-> NoErr]

\* Field.load(name, directory), lines 307-309: Data.load and nothing else.
Field_load(o, d, name, directory, strict) ==
    LET r == load(o, d, name, directory, strict)
    IN  [o |-> r.o, d |-> d, err |-> r.err, invoked |-> FALSE]

\* Field.save(name, directory), lines 311-313: it calls super().load(), so
\* it reads the files and writes none.
Field_save(o, d, name, directory, strict) ==
    LET r == load(o, d, name, directory, strict)
    IN  [o |-> r.o, d |-> d, err |-> r.err, invoked |-> FALSE]

\* from_tarball(yml, qet), lines 171-178: a new object from a manifest and,
\* when withQet, the whole stored table, through __init__.
from_tarball(f, withQet) ==
    __init__(f.yml.items, IF withQet THEN f.qet ELSE NoneP)

(***************************************************************************)
(* Derived views and the scoped natural view.                              *)
(***************************************************************************)
\* groupby(columns) and memory(), lines 51-68: both materialize through
\* data() and then only read the table.
groupby(o, cols) == data(o, NoneP, TRUE)

memory(o) == data(o, NoneP, TRUE)

\* unset_categories() up to its yield, lines 238-242.  The table handed to
\* the body is the cached object itself, transcoded in place.
unset_enter(o) ==
    LET r == data(o, NoneP, TRUE)
        df == IF IsTable(r.ret) THEN _set_categories(r.o, r.ret, TRUE) ELSE r.ret
    IN  IF r.err # NoErr THEN [o |-> r.o, err |-> r.err, invoked |-> r.invoked, df |-> NoneP]
        ELSE [o |-> [r.o EXCEPT !._data = df], err |-> NoErr, invoked |-> r.invoked, df |-> df]

\* A variant of unset_categories() without the finally clause: a body that
\* raises leaves the scope without the restore.
unset_exit_no_finally(o, sc, raised) ==
    LET fwd == IF IsTable(sc.df) THEN _set_categories(o, sc.df, FALSE) ELSE sc.df
        oa == IF sc.aliased THEN [o EXCEPT !._data = fwd] ELSE o
        r == data(oa, fwd, TRUE)
        v == _validate_data(oa, fwd, FALSE)
    IN  IF raised THEN [o |-> o, err |-> NoErr, invoked |-> FALSE]
        ELSE IF SetCategoriesRaises(o, sc.df)
        THEN [o |-> o, err |-> Err("AttributeError", {}, ""), invoked |-> FALSE]
        ELSE IF r.err # NoErr /\ sc.aliased /\ fwd # NoneP
        THEN [o |-> [oa EXCEPT !._data = v.df], err |-> r.err, invoked |-> r.invoked]
        ELSE [o |-> r.o, err |-> r.err, invoked |-> r.invoked]

\* The finally clause, line 244: self.data(df=self._set_categories(df)); it
\* runs whether or not the body raised.
\* sc.df is the object handed to the body and sc.aliased says whether the
\* cache still is that object.
unset_exit(o, sc, raised) ==
    LET fwd == IF IsTable(sc.df) THEN _set_categories(o, sc.df, FALSE) ELSE sc.df
        oa == IF sc.aliased THEN [o EXCEPT !._data = fwd] ELSE o
        r == data(oa, fwd, TRUE)
        v == _validate_data(oa, fwd, FALSE)
    IN  IF SetCategoriesRaises(o, sc.df)
        THEN [o |-> o, err |-> Err("AttributeError", {}, ""), invoked |-> FALSE]
        ELSE IF r.err # NoErr /\ sc.aliased /\ fwd # NoneP
        THEN [o |-> [oa EXCEPT !._data = v.df], err |-> r.err, invoked |-> r.invoked]
        ELSE [o |-> r.o, err |-> r.err, invoked |-> r.invoked]

(***************************************************************************)
(* History.  `last` records the latest call: the operation, the object     *)
(* before it, the error it raised, whether it invoked the source, and its  *)
(* arguments (val is the value assigned); after_data says that the call   *)
(* before it was a data() call that returned.  `scope` is an open          *)
(* unset_categories() scope.  `trip` follows a save / fresh object / load  *)
(* round trip, or a forward / reverse / forward transcoding.               *)
(***************************************************************************)
Call(op, pre) ==
    [op |-> op, pre |-> pre, err |-> NoErr, invoked |-> FALSE, df |-> NoneP,
     cache |-> TRUE, attr |-> "", val |-> "", src |-> NoSource,
     name |-> "None", dir |-> "None", flag |-> "",
     after_data |-> (last.op = "data" /\ last.err = NoErr)]

NoScope == [active |-> FALSE, df |-> NoneP, aliased |-> FALSE]

NoTrip == [stage |-> "none", o |-> Data, name |-> "None", dir |-> "None"]

Init ==
    /\ self = Data
    /\ disk = EmptyDisk
    /\ last = [op |-> "init", pre |-> Data, err |-> NoErr, invoked |-> FALSE,
               df |-> NoneP, cache |-> TRUE, attr |-> "", val |-> "", src |-> NoSource,
               name |-> "None", dir |-> "None", flag |-> "", after_data |-> FALSE]
    /\ scope = NoScope
    /\ trip = NoTrip

\* obj.attr = value, for a trait other than source.
Assign(attr, value) ==
    LET r == SetTrait(self, attr, value)
    IN  /\ ~scope.active
        /\ self' = r.o
        /\ last' = [Call("set", self) EXCEPT !.attr = attr, !.val = value, !.err = r.err]
        /\ trip' = NoTrip
        /\ UNCHANGED <<disk, scope>>

\* obj.source = value.
AssignSource(value) ==
    LET r == SetTrait(self, "source", value)
    IN  /\ ~scope.active
        /\ self' = r.o
        /\ last' = [Call("set", self) EXCEPT !.attr = "source", !.src = value, !.err = r.err]
        /\ trip' = NoTrip
        /\ UNCHANGED <<disk, scope>>

\* obj.data(df, cache) outside a scope.
DataCall(df, cache) ==
    LET r == data(self, df, cache)
    IN  /\ ~scope.active
        /\ self' = r.o
        /\ last' = [Call("data", self) EXCEPT !.df = df, !.cache = cache,
                                               !.err = r.err, !.invoked = r.invoked]
        /\ trip' = NoTrip
        /\ UNCHANGED <<disk, scope>>

\* obj.groupby() / obj.memory().
ViewCall(op) ==
    LET r == IF op = "groupby" THEN groupby(self, self.indexes) ELSE memory(self)
    IN  /\ ~scope.active
        /\ self' = r.o
        /\ last' = [Call(op, self) EXCEPT !.err = r.err, !.invoked = r.invoked]
        /\ trip' = NoTrip
        /\ UNCHANGED <<disk, scope>>

\* obj = Data(df=df, **kws): the live object is replaced when the
\* constructor returns, and kept when it raises.
Construct(kws, df) ==
    LET r == __init__(kws, df)
    IN  /\ ~scope.active
        /\ self' = IF r.err = NoErr THEN r.o ELSE self
        /\ last' = [Call("init", self) EXCEPT !.df = df, !.err = r.err, !.invoked = r.invoked]
        /\ trip' = IF trip.stage = "saved" /\ kws = Data /\ df = NoneP
                   THEN [trip EXCEPT !.stage = "fresh"] ELSE NoTrip
        /\ UNCHANGED <<disk, scope>>

\* obj.save(name, directory), with the file system answering io.
Save(name, directory, io) ==
    LET r == save(self, disk, name, directory, io)
        ok == r.err = NoErr /\ IsTable(r.o._data)
    IN  /\ ~scope.active
        /\ self' = r.o
        /\ disk' = r.d
        /\ last' = [Call("save", self) EXCEPT !.name = name, !.dir = directory, !.flag = io,
                                               !.err = r.err, !.invoked = r.invoked]
        /\ trip' = IF ok THEN [stage |-> "saved", o |-> r.o, name |-> ResolveName(self, name),
                               dir |-> IF directory = "None" THEN "savedir" ELSE directory]
                   ELSE NoTrip
        /\ UNCHANGED scope

\* obj.load(name=name, directory=directory).
Load(name, directory, strict) ==
    LET r == load(self, disk, name, directory, strict)
    IN  /\ ~scope.active
        /\ self' = r.o
        /\ last' = [Call("load", self) EXCEPT !.name = name, !.dir = directory,
                                               !.flag = IF strict THEN "strict" ELSE "lenient",
                                               !.err = r.err]
        /\ trip' = IF trip.stage = "fresh" /\ name = trip.name /\ directory = trip.dir
                   THEN [trip EXCEPT !.stage = "loaded"] ELSE NoTrip
        /\ UNCHANGED <<disk, scope>>

\* field.save(name=name, directory=directory) and field.load(...), on an
\* object that is a Field.
FieldCall(op, name, directory, strict) ==
    LET r == IF op = "field_save" THEN Field_save(self, disk, name, directory, strict)
             ELSE Field_load(self, disk, name, directory, strict)
    IN  /\ ~scope.active
        /\ self' = r.o
        /\ disk' = r.d
        /\ last' = [Call(op, self) EXCEPT !.name = name, !.dir = directory,
                                           !.flag = IF strict THEN "strict" ELSE "lenient",
                                           !.err = r.err, !.invoked = r.invoked]
        /\ trip' = NoTrip
        /\ UNCHANGED scope

\* obj = Data.from_tarball(yml, qet): the manifest of one saved object and,
\* optionally, a stored table (of the same or of another one).
FromTarball(ymlAt, qetAt, withQet) ==
    LET f == [yml |-> disk[ymlAt].yml, qet |-> disk[qetAt].qet]
        r == from_tarball(f, withQet)
    IN  /\ ~scope.active
        /\ f.yml.exists
        /\ withQet => f.qet # NoneP
        /\ self' = IF r.err = NoErr THEN r.o ELSE self
        /\ last' = [Call("from_tarball", self) EXCEPT !.df = IF withQet THEN f.qet ELSE NoneP,
                                                       !.err = r.err, !.invoked = r.invoked]
        /\ trip' = NoTrip
        /\ UNCHANGED <<disk, scope>>

\* Another program removes one of the two files of a saved object.
Unlink(at, which) ==
    /\ ~scope.active
    /\ IF which = "yml" THEN disk[at].yml.exists ELSE disk[at].qet # NoneP
    /\ disk' = IF which = "yml" THEN [disk EXCEPT ![at].yml = NoYml]
               ELSE [disk EXCEPT ![at].qet = NoneP]
    /\ last' = [Call("unlink", self) EXCEPT !.flag = which]
    /\ trip' = NoTrip
    /\ UNCHANGED <<self, scope>>

\* with obj.unset_categories() as df: the scope opens when data() returns.
Enter ==
    LET r == unset_enter(self)
    IN  /\ ~scope.active
        /\ self' = r.o
        /\ scope' = IF r.err = NoErr THEN [active |-> TRUE, df |-> r.df, aliased |-> r.df # NoneP]
                    ELSE NoScope
        /\ last' = [Call("enter", self) EXCEPT !.err = r.err, !.invoked = r.invoked]
        /\ trip' = NoTrip
        /\ UNCHANGED disk

\* The body calls obj.data(df, cache).  Revalidating the cached object
\* transcodes the yielded table with it; caching another object ends the
\* aliasing.
BodyData(df, cache) ==
    LET r == data(self, df, cache)
        same == df = NoneP /\ cache /\ self._data # NoneP
    IN  /\ scope.active
        /\ self' = r.o
        /\ scope' = IF same /\ scope.aliased THEN [scope EXCEPT !.df = r.o._data]
                    ELSE IF ~same /\ r.err = NoErr THEN [scope EXCEPT !.aliased = FALSE]
                    ELSE scope
        /\ last' = [Call("body_data", self) EXCEPT !.df = df, !.cache = cache,
                                                    !.err = r.err, !.invoked = r.invoked]
        /\ UNCHANGED <<disk, trip>>

\* The body drops a column of the yielded table in place.
BodyDrop(col) ==
    LET df == read_parquet(scope.df, scope.df.cols \ {col})
    IN  /\ scope.active
        /\ IsTable(scope.df)
        /\ col \in scope.df.cols
        /\ scope' = [scope EXCEPT !.df = df]
        /\ self' = IF scope.aliased THEN [self EXCEPT !._data = df] ELSE self
        /\ last' = [Call("body_drop", self) EXCEPT !.attr = col]
        /\ UNCHANGED <<disk, trip>>

\* The scope ends, the body having returned or raised: the finally clause
\* runs either way.
Exit(raised) ==
    LET r == unset_exit(self, scope, raised)
    IN  /\ scope.active
        /\ self' = r.o
        /\ scope' = NoScope
        /\ last' = [Call("exit", self) EXCEPT !.flag = IF raised THEN "raised" ELSE "returned",
                                               !.df = scope.df,
                                               !.err = r.err, !.invoked = r.invoked]
        /\ UNCHANGED <<disk, trip>>

\* obj._set_categories(obj._data, reverse) on a cached table.  trip follows
\* a forward / reverse / forward sequence from the table the first forward
\* call left.
SetCategories(reverse) ==
    LET df == _set_categories(self, self._data, reverse)
        o1 == [self EXCEPT !._data = df]
    IN  /\ ~scope.active
        /\ IsTable(self._data)
        /\ self' = o1
        /\ last' = [Call("_set_categories", self)
                        EXCEPT !.flag = IF reverse THEN "reverse" ELSE "forward"]
        /\ trip' = IF ~reverse /\ trip.stage = "reversed" THEN [trip EXCEPT !.stage = "restored"]
                   ELSE IF ~reverse THEN [NoTrip EXCEPT !.stage = "forward", !.o = o1]
                   ELSE IF trip.stage = "forward" THEN [trip EXCEPT !.stage = "reversed"]
                   ELSE NoTrip
        /\ UNCHANGED <<disk, scope>>

(***************************************************************************)
(* Specifications.  Each draws the arguments of the calls from small sets  *)
(* chosen for the operations it exercises.                                 *)
(***************************************************************************)
ArgValues == {<<>>, <<1>>}
KwValues == {{}, {<<"k", 1>>}}
OneRow == RawTable({"a"}, <<Row(1, 0)>>)

\* Lazy materialization: source, call arguments, data().
NextLazy ==
    \/ \E v \in {NoSource, make_ab, make_none} : AssignSource(v)
    \/ \E v \in ArgValues : Assign("call_args", v)
    \/ \E v \in KwValues : Assign("call_kws", v)
    \/ \E v \in {{}, {"b"}} : Assign("columns", v)
    \/ \E df \in {NoneP, OneRow}, cache \in BOOLEAN : DataCall(df, cache)
    \/ \E op \in {"groupby", "memory"} : ViewCall(op)
    \/ \E v \in {NoSource, make_ab}, df \in {NoneP, OneRow} :
          Construct([Data EXCEPT !.source = v], df)

SpecLazy == Init /\ [][NextLazy]_vars

\* Source resolution: callables, values that are not callable and dotted
\* strings, assigned or given to the constructor, on objects with call
\* arguments and a cache.
SourceValues ==
    {NoSource, make_ab, NotCallable,
     DottedString(<<"provider", "make_dup">>), DottedString(<<"provider", "version">>),
     DottedString(<<"provider", "missing">>), DottedString(<<"nomodule", "make_ab">>),
     DottedString(<<"make_ab">>)}

NextSource ==
    \/ \E v \in SourceValues : AssignSource(v)
    \/ \E v \in ArgValues : Assign("call_args", v)
    \/ \E v \in KwValues : Assign("call_kws", v)
    \/ \E df \in {NoneP, OneRow} : DataCall(df, TRUE)
    \/ \E v \in SourceValues : Construct([Data EXCEPT !.source = v], NoneP)

SpecSource == Init /\ [][NextSource]_vars

\* Configuration of the schema keys: cardinal and indexes, assigned, given
\* to the constructor, saved and loaded.
NextConfig ==
    \/ \E c \in {"", "a", "b"} : Assign("cardinal", c)
    \/ \E ix \in SUBSET Cols : Assign("indexes", ix)
    \/ \E c \in {"", "a", "b"}, ix \in SUBSET Cols :
          Construct([Data EXCEPT !.cardinal = c, !.indexes = ix], NoneP)
    \/ Save("iso", "tmp", "ok")
    \/ Load("iso", "tmp", TRUE)

SpecConfig == Init /\ [][NextConfig]_vars

\* Persistence of one object in the files "tmp/iso": save(), a fresh
\* object, load().
TwoSame == RawTable({"a"}, <<Row(1, 0), Row(1, 0)>>)
At == <<"tmp", "iso">>

NextTrip ==
    \/ \E v \in {NoSource, make_ab, make_partial} : AssignSource(v)
    \/ \E cs \in {{}, {"a"}} : Assign("columns", cs)
    \/ DataCall(OneRow, TRUE)
    \/ \E io \in {"ok", "qet", "yml"} : Save("iso", "tmp", io)
    \/ \E nm \in {"None", "iso"}, dir \in {"None", "tmp"} : Load(nm, dir, TRUE)
    \/ Construct(Data, NoneP)

SpecTrip == Init /\ [][NextTrip]_vars

\* Stored tables that do not fit the schema: the manifest is removed or left
\* behind by a failed save, the schema changed, then load() or from_tarball().
NextStored ==
    \/ \E cs \in {{}, {"b"}} : Assign("columns", cs)
    \/ \E ix \in {{}, {"a"}} : Assign("indexes", ix)
    \/ \E v \in {NoSource, make_ab} : AssignSource(v)
    \/ \E df \in {NoneP, OneRow, TwoSame} : DataCall(df, TRUE)
    \/ \E io \in {"ok", "yml"} : Save("iso", "tmp", io)
    \/ \E strict \in BOOLEAN : Load("iso", "tmp", strict)
    \/ \E withQet \in BOOLEAN : FromTarball(At, At, withQet)
    \/ Unlink(At, "yml")

SpecStored == Init /\ [][NextStored]_vars

\* The scoped natural view: categories are declared, a table is cached, the
\* scope is entered, the body reads or replaces the data or edits the table
\* it was given, and the scope ends.
TwoCols == RawTable({"a", "b"}, <<Row(1, 1), Row(2, 1)>>)

NextScope ==
    \/ \E cats \in {NoCategories, [NoCategories EXCEPT !["a"] = "str"],
                    [a |-> "int", b |-> "str"]} : Assign("categories", cats)
    \/ \E cs \in {{}, {"b"}} : Assign("columns", cs)
    \/ \E df \in {OneRow, TwoCols, Opaque} : DataCall(df, TRUE)
    \/ Enter
    \/ \E df \in {NoneP, OneRow}, cache \in BOOLEAN : BodyData(df, cache)
    \/ \E col \in Cols : BodyDrop(col)
    \/ \E raised \in BOOLEAN : Exit(raised)

SpecScope == Init /\ [][NextScope]_vars

\* A Field: its save() and load(), with no files in "tmp/iso" or the files
\* that Data(name="iso", columns=["a"], df=TwoSame).save(directory="tmp")
\* wrote there.
StoredDisk ==
    save(__init__([Data EXCEPT !.name = "iso", !.columns = {"a"}], TwoSame).o,
         EmptyDisk, "None", "tmp", "ok").d

InitField ==
    /\ self = Data
    /\ disk \in {EmptyDisk, StoredDisk}
    /\ last = [op |-> "init", pre |-> Data, err |-> NoErr, invoked |-> FALSE,
               df |-> NoneP, cache |-> TRUE, attr |-> "", val |-> "", src |-> NoSource,
               name |-> "None", dir |-> "None", flag |-> "", after_data |-> FALSE]
    /\ scope = NoScope
    /\ trip = NoTrip

NextField ==
    \/ \E cs \in {{}, {"a"}} : Assign("columns", cs)
    \/ \E ix \in {{}, {"a"}} : Assign("indexes", ix)
    \/ \E v \in {NoSource, make_ab} : AssignSource(v)
    \/ DataCall(OneRow, TRUE)
    \/ \E op \in {"field_save", "field_load"}, dir \in {"None", "tmp"} :
          FieldCall(op, "iso", dir, TRUE)

SpecField == InitField /\ [][NextField]_vars

\* Categorical transcoding: every categories mapping over the columns, on a
\* cached one-row table of one or two columns whose columns hold ints or
\* strings, plain or categorical.
Encodings == {"int", "str", "cat_int", "cat_str"}

CategoryMaps == [Cols -> {"none"} \cup Types]

TypedTables ==
    {[RawTable(cs, <<[c \in Cols |-> IF c \in cs THEN 1 ELSE 0]>>) EXCEPT
         !.enc = [c \in Cols |-> IF c \in cs THEN e[c] ELSE "absent"]] :
       cs \in {{"a"}, {"a", "b"}}, e \in [Cols -> Encodings]}

InitTranscode ==
    /\ self \in {[Data EXCEPT !.categories = cats, !._data = t] :
                    cats \in CategoryMaps, t \in TypedTables}
    /\ disk = EmptyDisk
    /\ last = [op |-> "init", pre |-> Data, err |-> NoErr, invoked |-> FALSE,
               df |-> NoneP, cache |-> TRUE, attr |-> "", val |-> "", src |-> NoSource,
               name |-> "None", dir |-> "None", flag |-> "", after_data |-> FALSE]
    /\ scope = NoScope
    /\ trip = NoTrip

NextTranscode == \E reverse \in BOOLEAN : SetCategories(reverse)

SpecTranscode == InitTranscode /\ [][NextTranscode]_vars

\* Payloads that are no table, on an object without a source: None, which
\* __call__ produces, and an opaque object given to data(); every schema key
\* is declared; the views, save() and the scope are used.
NextOpaque ==
    \/ \E cats \in {NoCategories, [NoCategories EXCEPT !["a"] = "str"]} :
          Assign("categories", cats)
    \/ \E cs \in {{}, {"b"}} : Assign("columns", cs)
    \/ \E ix \in {{}, {"a"}} : Assign("indexes", ix)
    \/ \E df \in {NoneP, Opaque}, cache \in BOOLEAN : DataCall(df, cache)
    \/ \E op \in {"groupby", "memory"} : ViewCall(op)
    \/ Save("iso", "tmp", "ok")
    \/ Enter
    \/ BodyData(NoneP, TRUE)
    \/ \E raised \in BOOLEAN : Exit(raised)

SpecOpaque == Init /\ [][NextOpaque]_vars

\* Failing data() calls: the source raises, a required column is missing or
\* rows are duplicated under indexes, with a table given or not, with either
\* cache flag, on a cache made before categories and indexes were declared.
NextFail ==
    \/ \E cats \in {NoCategories, [NoCategories EXCEPT !["a"] = "str"]} :
          Assign("categories", cats)
    \/ \E cs \in {{}, {"b"}} : Assign("columns", cs)
    \/ \E ix \in {{}, {"a"}} : Assign("indexes", ix)
    \/ \E v \in {NoSource, make_dup, make_raise} : AssignSource(v)
    \/ \E df \in {NoneP, OneRow, TwoSame}, cache \in BOOLEAN : DataCall(df, cache)

SpecFail == Init /\ [][NextFail]_vars

\* Validation: required columns and unique indexes, on an object made as
\* Data(name="iso", source=make_dup), against the tables its sources make,
\* every table of at most MaxRows rows over the columns a and b, and tables
\* lacking a column.
ValidateRows == {Row(1, 1), Row(1, 2), Row(2, 2)}

ValidateTables ==
    {RawTable({"a", "b"}, rs) : rs \in SeqsUpTo(ValidateRows, MaxRows)}
        \cup {OneRow, RawTable({}, <<>>)}

InitValidate ==
    /\ self = __init__([Data EXCEPT !.name = "iso", !.source = make_dup], NoneP).o
    /\ disk = EmptyDisk
    /\ last = [op |-> "init", pre |-> Data, err |-> NoErr, invoked |-> FALSE,
               df |-> NoneP, cache |-> TRUE, attr |-> "", val |-> "", src |-> NoSource,
               name |-> "None", dir |-> "None", flag |-> "", after_data |-> FALSE]
    /\ scope = NoScope
    /\ trip = NoTrip

NextValidate ==
    \/ \E cs \in SUBSET Cols : Assign("columns", cs)
    \/ \E ix \in {{}, {"a"}, {"a", "b"}} : Assign("indexes", ix)
    \/ \E v \in {make_dup, make_partial} : AssignSource(v)
    \/ \E df \in ValidateTables : DataCall(df, TRUE)
    \/ \E cache \in BOOLEAN : DataCall(NoneP, cache)

SpecValidate == InitValidate /\ [][NextValidate]_vars

(***************************************************************************)
(* Claims about lazy materialization (SpecLazy).                           *)
(***************************************************************************)
\* C1, as stated: construction and assignments never invoke the source, and
\* a data() call with cache=True and no table that follows a data() call
\* that returned gives the cached payload back without invoking the source.
C1_Original ==
    /\ last.op \in {"init", "set"} => ~last.invoked
    /\ (last.op = "data" /\ last.after_data /\ last.cache /\ last.df = NoneP)
          => (~last.invoked /\ last.err = NoErr /\ self._data = last.pre._data)

\* C1, amended: construction and assignments never invoke the source, and a
\* data() call with cache=True and no table made while the cache holds a
\* payload (not None) does not invoke the source and, when it returns,
\* returns that cached payload.
C1_CachedNotReinvoked ==
    /\ last.op \in {"init", "set"} => ~last.invoked
    /\ (last.op = "data" /\ last.cache /\ last.df = NoneP /\ last.pre._data # NoneP)
          => (~last.invoked /\ (last.err = NoErr => self._data = last.pre._data))

C1_Witness ==
    /\ last.op = "data" /\ last.after_data /\ last.cache /\ last.df = NoneP
    /\ last.pre.source = make_ab
    /\ IsTable(last.pre._data)
    /\ last.err = NoErr
    /\ self._data = last.pre._data

\* C2, as stated: after source = None, whatever the state before, call_args
\* and call_kws are empty and the cache is None.
C2_Original ==
    (last.op = "set" /\ last.attr = "source" /\ last.src = NoSource)
        => (self.call_args = <<>> /\ self.call_kws = {} /\ self._data = NoneP)

\* C2, amended: after source = None on an object whose source was set,
\* call_args and call_kws are empty and the cache is None.
C2_NullifiedSourceResets ==
    (last.op = "set" /\ last.attr = "source" /\ last.src = NoSource
        /\ last.pre.source # NoSource)
        => (self.source = NoSource /\ self.call_args = <<>> /\ self.call_kws = {}
            /\ self._data = NoneP)

C2_Witness ==
    /\ last.op = "set" /\ last.attr = "source" /\ last.src = NoSource
    /\ last.pre.source # NoSource
    /\ last.pre.call_args # <<>> /\ last.pre.call_kws # {} /\ IsTable(last.pre._data)
    /\ self.call_args = <<>> /\ self.call_kws = {} /\ self._data = NoneP

\* C17: data(cache=False) without a table, on an object with a source,
\* sets the cache aside and invokes the source with call_args and call_kws;
\* when it returns, the cache holds what the source produced.  data(df=T),
\* with either cache flag, does not invoke the source and, when it returns,
\* the cache holds T.  Neither raises unless the source raised or the
\* payload failed validation.
C17_ForcedAndSetter ==
    /\ (last.op = "data" /\ last.df = NoneP /\ ~last.cache /\ last.pre.source # NoSource)
          => LET made == CallSource(last.pre.source, last.pre.call_args, last.pre.call_kws)
             IN  /\ last.invoked
                 /\ last.err.kind \in {"none", "RequiredColumnError"}
                 /\ last.err = NoErr
                       => IF IsTable(made)
                          THEN /\ self._data.cols = made.cols
                               /\ self._data.rows = made.rows
                          ELSE self._data = made
    /\ (last.op = "data" /\ last.df # NoneP)
          => /\ ~last.invoked
             /\ last.err.kind \in {"none", "RequiredColumnError"}
             /\ last.err = NoErr
                   => (self._data.cols = last.df.cols /\ self._data.rows = last.df.rows)

C17_Witness ==
    /\ last.op = "data" /\ last.df = NoneP /\ ~last.cache
    /\ last.pre.source = make_ab /\ last.pre.call_args # <<>>
    /\ IsTable(last.pre._data)
    /\ last.invoked /\ last.err = NoErr
    /\ self._data.rows = CallSource(make_ab, last.pre.call_args, last.pre.call_kws).rows
    /\ self._data.rows # last.pre._data.rows

\* data(df=T, cache=False) on an object with a source and a cache.
C17_Setter ==
    /\ last.op = "data" /\ last.df = OneRow /\ ~last.cache
    /\ last.pre.source = make_ab /\ IsTable(last.pre._data)
    /\ last.pre._data.rows # OneRow.rows
    /\ ~last.invoked /\ self._data.rows = OneRow.rows

(***************************************************************************)
(* Claims about the schema keys (SpecConfig).                              *)
(***************************************************************************)
\* C3: in every reachable state, if cardinal is set and indexes is not
\* empty then cardinal is one of indexes.
C3_CardinalInIndexes ==
    (self.cardinal # "" /\ self.indexes # {}) => self.cardinal \in self.indexes

\* C12: assigning cardinal on an object whose indexes is not empty raises
\* TraitError exactly when the value is not one of indexes, and cardinal
\* then keeps its previous value; a value in indexes, or any value when
\* indexes is empty, is stored.
C12_CardinalAssignment ==
    (last.op = "set" /\ last.attr = "cardinal")
        => IF last.pre.indexes # {} /\ last.val \notin last.pre.indexes
           THEN /\ last.err = TraitError("cardinal not in indexes")
                /\ self.cardinal = last.pre.cardinal
           ELSE /\ last.err = NoErr
                /\ self.cardinal = last.val

C12_Witness ==
    /\ last.op = "set" /\ last.attr = "cardinal"
    /\ last.pre.indexes = {"a"} /\ last.pre.cardinal = "a"
    /\ last.val = "b"
    /\ last.err # NoErr
    /\ self.cardinal = "a"

\* A member of indexes is stored.
C12_Accepted ==
    /\ last.op = "set" /\ last.attr = "cardinal"
    /\ last.pre.indexes = {"a", "b"} /\ last.pre.cardinal = "a"
    /\ last.val = "b" /\ self.cardinal = "b"

(***************************************************************************)
(* Claims about persistence (SpecTrip, SpecStored).                        *)
(***************************************************************************)
\* C4: after save(), a fresh object and load() of the same name and
\* directory, the cache equals the saved table and every trait equals the
\* saved object's, source included.
C4_RoundTrip ==
    trip.stage = "loaded"
        => /\ last.err = NoErr
           /\ self._data = trip.o._data
           /\ trait_items(self) = trait_items(trip.o)

\* C5: after save() on an object whose cache held a table, on every path
\* out of save(), the cache holds that table and no trait has changed.
C5_SaveKeepsObject ==
    (last.op = "save" /\ IsTable(last.pre._data))
        => /\ self._data = last.pre._data
           /\ trait_items(self) = trait_items(last.pre)

\* C7: load() without a directory is not an error.
C7_LoadDefaultDirectory ==
    (last.op = "load" /\ last.dir = "None") => last.err = NoErr

\* A table that does not fit the schema of o: a required column is missing,
\* or two rows agree on indexes.
Violates(o, t) ==
    /\ IsTable(t)
    /\ \/ ~(o.columns \subseteq t.cols)
       \/ o.indexes # {} /\ o.indexes \subseteq t.cols /\ duplicated(t, o.indexes)

\* The errors load() raises before it has a table to cache: Path(None), an
\* assignment of a manifest value that its validator rejects, and the file
\* reader refusing a column the file lacks.
BeforeTable ==
    {"TypeError", "cardinal not in indexes", "source must be importable",
     "source must be callable", "ArrowInvalid"}

\* C8, as stated: load() and from_tarball() never invoke the source, and a
\* stored table that violates the schema is cached without an error (for
\* load(), whenever the manifest applies and the reader returns a table).
C8_Original ==
    /\ last.op \in {"load", "from_tarball"} => ~last.invoked
    /\ (last.op = "load" /\ last.dir = "tmp" /\ Violates(self, disk[At].qet)
            /\ last.err.kind \notin BeforeTable)
          => (last.err = NoErr /\ self._data = read_parquet(disk[At].qet, self.columns))
    /\ (last.op = "from_tarball" /\ Violates(disk[At].yml.items, last.df))
          => (last.err = NoErr /\ IsTable(self._data) /\ self._data.rows = last.df.rows)

\* C8, amended: neither load() nor from_tarball() invokes the source.
\* load() never validates: it raises no validation error, and a stored table
\* with duplicate rows under indexes is cached as read.  from_tarball()
\* validates: a stored table that violates the manifest's schema makes it
\* raise, and no object is made.
C8_LoadTrustsTarballValidates ==
    /\ last.op \in {"load", "from_tarball"} => ~last.invoked
    /\ last.op = "load"
          => last.err.kind \notin {"RequiredColumnError", "duplicates in indexes", "KeyError"}
    /\ (last.op = "load" /\ last.dir = "tmp" /\ disk[At].qet # NoneP /\ last.err = NoErr)
          => self._data = read_parquet(disk[At].qet, self.columns)
    /\ (last.op = "load" /\ last.dir = "tmp" /\ Violates(self, disk[At].qet)
            /\ last.err.kind \notin BeforeTable)
          => last.err = NoErr
    /\ (last.op = "from_tarball" /\ Violates(disk[At].yml.items, last.df))
          => (last.err.kind \in {"RequiredColumnError", "duplicates in indexes"}
              /\ self = last.pre)

C8_Witness ==
    /\ last.op = "load" /\ last.err = NoErr
    /\ last.pre.source # NoSource
    /\ self.indexes # {}
    /\ IsTable(self._data)
    /\ duplicated(self._data, self.indexes)

C8_TarballRejects ==
    /\ last.op = "from_tarball"
    /\ Violates(disk[At].yml.items, last.df)
    /\ last.err # NoErr

\* C14: load() of a name and directory where neither file exists raises no
\* error and changes neither a trait nor the cache; where only the data file
\* exists no trait changes, and where only the manifest exists the cache
\* does not change.
C14_LoadMissingFiles ==
    (last.op = "load" /\ last.dir = "tmp")
        => /\ (~disk[At].yml.exists /\ disk[At].qet = NoneP)
                 => (last.err = NoErr /\ self = last.pre)
           /\ ~disk[At].yml.exists => trait_items(self) = trait_items(last.pre)
           /\ disk[At].qet = NoneP => self._data = last.pre._data

C14_Witness ==
    /\ last.op = "load" /\ last.dir = "tmp" /\ last.err = NoErr
    /\ disk[At].yml.exists /\ disk[At].qet = NoneP
    /\ self.columns # last.pre.columns
    /\ IsTable(self._data) /\ self._data = last.pre._data

\* Neither file exists, on an object with a cache.
C14_NeitherFile ==
    /\ last.op = "load" /\ last.dir = "tmp"
    /\ ~disk[At].yml.exists /\ disk[At].qet = NoneP
    /\ IsTable(self._data) /\ self.source # NoSource

\* Only the data file exists: the cache is replaced, the traits are kept.
C14_OnlyDataFile ==
    /\ last.op = "load" /\ last.dir = "tmp" /\ last.err = NoErr
    /\ ~disk[At].yml.exists /\ disk[At].qet # NoneP
    /\ self._data # last.pre._data /\ self.indexes # {}

\* C16: whatever came before (the schema changed after a table was cached,
\* load() cached a table it did not validate), a table that data() returns
\* holds every declared column and has no two rows equal on the declared
\* indexes; a cached table that violates the schema makes data() raise.
C16_ReturnedTablesValid ==
    /\ (last.op = "data" /\ last.err = NoErr /\ IsTable(self._data))
          => /\ self.columns \subseteq self._data.cols
             /\ self.indexes \subseteq self._data.cols
             /\ self.indexes # {}
                   => \A i, j \in 1..Len(self._data.rows) :
                         i < j => \E c \in self.indexes :
                                     self._data.rows[i][c] # self._data.rows[j][c]
    /\ (last.op = "data" /\ last.df = NoneP /\ last.cache
            /\ Violates(last.pre, last.pre._data))
          => (last.err # NoErr /\ self.columns = last.pre.columns
              /\ self.indexes = last.pre.indexes)

C16_Witness ==
    /\ last.op = "data" /\ last.df = NoneP /\ last.cache
    /\ IsTable(last.pre._data)
    /\ last.pre.indexes = {"a"}
    /\ duplicated(last.pre._data, {"a"})
    /\ last.err = TraitError("duplicates in indexes")

\* A table only load() can have cached (no column was read) is rejected by
\* the data() call that follows a change of columns.
C16_LoadedRejected ==
    /\ last.op = "data" /\ last.df = NoneP /\ last.cache
    /\ IsTable(last.pre._data) /\ last.pre._data.cols = {}
    /\ last.err.kind = "RequiredColumnError"

\* A cached table is returned by data() after validation.
C16_CachedReturned ==
    /\ last.op = "data" /\ last.df = NoneP /\ last.cache /\ ~last.invoked
    /\ IsTable(last.pre._data) /\ last.err = NoErr
    /\ self.indexes # {} /\ self.columns # {}

\* C18: save() on a Field, with a name and a directory, returns, leaves the
\* traits and the cache as they were and writes the manifest of the object
\* under that name and directory.
C18_FieldSavePersists ==
    (last.op = "field_save" /\ last.dir = "tmp")
        => /\ last.err = NoErr
           /\ self = last.pre
           /\ disk[At].yml = Yml(Manifest(self))

\* Field.save() replaces the traits and the cache by those on disk.
C18_Overwrites ==
    /\ last.op = "field_save" /\ last.err = NoErr
    /\ IsTable(last.pre._data) /\ last.pre.columns = {}
    /\ self.columns = {"a"} /\ self._data.rows = TwoSame.rows
    /\ disk = StoredDisk

(***************************************************************************)
(* Claims about the scoped natural view (SpecScope).                       *)
(***************************************************************************)
\* C6: after an unset_categories() scope ends, the body having returned or
\* raised, every declared categorical column present in the cached table is
\* in categorical encoding.
C6_ScopeRestoresCategories ==
    (last.op = "exit" /\ IsTable(self._data))
        => \A c \in self._data.cols :
              self.categories[c] # "none" => IsCategorical(self._data.enc[c])

C6_Witness ==
    /\ last.op = "exit" /\ last.flag = "raised"
    /\ IsTable(last.pre._data) /\ IsTable(self._data)
    /\ \E c \in self._data.cols :
          /\ self.categories[c] # "none"
          /\ ~IsCategorical(last.pre._data.enc[c])
          /\ IsCategorical(self._data.enc[c])

(***************************************************************************)
(* Claims about validation (SpecValidate).                                 *)
(***************************************************************************)
\* The candidate of the latest data() call: the table given, else the cached
\* payload when cache=True and there is one, else what the source produced.
Candidate ==
    IF last.df # NoneP THEN last.df
    ELSE IF last.cache /\ last.pre._data # NoneP THEN last.pre._data
    ELSE CallSource(last.pre.source, last.pre.call_args, last.pre.call_kws)

\* C9: on an object with non-empty columns, data() with a candidate table
\* that lacks a declared column raises RequiredColumnError carrying exactly
\* the declared columns absent from the table and the object's name; with a
\* candidate table holding every declared column it does not raise it.
C9_RequiredColumns ==
    (last.op = "data" /\ last.pre.columns # {} /\ IsTable(Candidate))
        => IF last.pre.columns \subseteq Candidate.cols
           THEN last.err.kind # "RequiredColumnError"
           ELSE /\ last.err = RequiredColumnError(last.pre.columns \ Candidate.cols,
                                                   last.pre.name)
                /\ last.err.name = "iso"

C9_Witness ==
    /\ last.op = "data" /\ last.df = NoneP /\ last.invoked
    /\ last.pre.columns = {"a", "b"}
    /\ Candidate.cols = {"a"}
    /\ last.err = RequiredColumnError({"b"}, "iso")

\* C10: on an object with non-empty indexes, data() with a candidate table
\* holding the index columns fails whenever two of its rows agree on every
\* column in indexes and raises the duplicates error only then; a table
\* whose rows are pairwise distinct on indexes, and which holds the declared
\* columns, passes and is cached.
C10_UniqueIndexes ==
    (last.op = "data" /\ last.pre.indexes # {} /\ IsTable(Candidate)
        /\ last.pre.indexes \subseteq Candidate.cols)
        => LET dup == \E i, j \in 1..Len(Candidate.rows) :
                         /\ i # j
                         /\ \A c \in last.pre.indexes :
                               Candidate.rows[i][c] = Candidate.rows[j][c]
           IN  /\ dup => last.err # NoErr
               /\ last.err.kind = "duplicates in indexes" => dup
               /\ (dup /\ last.pre.columns \subseteq Candidate.cols)
                     => last.err.kind = "duplicates in indexes"
               /\ (~dup /\ last.pre.columns \subseteq Candidate.cols)
                     => /\ last.err = NoErr
                        /\ IsTable(self._data)
                        /\ self._data.cols = Candidate.cols
                        /\ self._data.rows = Candidate.rows

C10_Witness ==
    /\ last.op = "data" /\ last.pre.indexes = {"a", "b"}
    /\ last.df # NoneP /\ Len(last.df.rows) = 2
    /\ last.df.rows[1]["a"] = last.df.rows[2]["a"]
    /\ last.df.rows[1]["b"] # last.df.rows[2]["b"]
    /\ last.err = NoErr
    /\ self._data.rows = last.df.rows

\* The duplicates error is raised, for a table the source produced.
C10_Rejects ==
    /\ last.op = "data" /\ last.df = NoneP /\ last.invoked
    /\ last.pre.indexes = {"a"}
    /\ last.err.kind = "duplicates in indexes"

(***************************************************************************)
(* Claims about source resolution (SpecSource).                            *)
(***************************************************************************)
\* C11: in every reachable state source is None or a callable.  Assigning a
\* value that is not callable, or a string whose module or attribute cannot
\* be resolved (a string without a dot included), raises TraitError and
\* leaves source, the cache, call_args and call_kws as they were; assigning
\* a resolvable dotted string stores the callable it names, not the string.
C11_SourceCallable ==
    /\ self.source.kind \in {"none", "callable"}
    /\ (last.op = "set" /\ last.attr = "source" /\ last.src # NoSource)
          => IF last.src.kind = "callable"
             THEN last.err = NoErr /\ self.source = last.src
             ELSE IF last.src = DottedString(<<"provider", "make_dup">>)
             THEN last.err = NoErr /\ self.source = make_dup
             ELSE /\ last.err.kind \in {"source must be importable", "source must be callable"}
                  /\ self.source = last.pre.source
                  /\ self._data = last.pre._data
                  /\ self.call_args = last.pre.call_args
                  /\ self.call_kws = last.pre.call_kws

C11_Witness ==
    /\ last.op = "set" /\ last.attr = "source"
    /\ last.src = DottedString(<<"make_ab">>)
    /\ last.err = TraitError("source must be importable")
    /\ last.pre.source = make_dup /\ self.source = make_dup
    /\ IsTable(self._data) /\ self.call_args # <<>> /\ self.call_kws # {}

\* C15: when an assignment has replaced one callable source by a different
\* callable, the data() call with cache=True and no table that follows it
\* returns, and caches, the rows and columns the new source produces.
C15_SourceChangeRefreshes ==
    [][(/\ last.op = "set" /\ last.attr = "source" /\ last.err = NoErr
        /\ last.pre.source # NoSource /\ self.source # NoSource
        /\ last.pre.source # self.source
        /\ last'.op = "data" /\ last'.cache /\ last'.df = NoneP)
          => (/\ last'.err = NoErr
              /\ self'._data.cols = CallSource(self.source, self.call_args, self.call_kws).cols
              /\ self'._data.rows = CallSource(self.source, self.call_args, self.call_kws).rows)]_vars

\* A resolvable dotted string replaces another callable.
C11_Resolved ==
    /\ last.op = "set" /\ last.attr = "source"
    /\ last.src = DottedString(<<"provider", "make_dup">>)
    /\ last.pre.source = make_ab /\ self.source = make_dup

HoldsDeclaredTypes(o) ==
    \A c \in o._data.cols :
        o.categories[c] # "none" => o._data.enc[c] = astype(o.categories[c], "category")

C19_NonTabularGraceful ==
    (last.op \in {"data", "groupby", "memory", "save", "enter", "body_data", "exit"})
        => /\ last.err = NoErr
           /\ ~IsTable(self._data)
           /\ (last.df # NoneP /\ last.op = "data") => self._data = last.df
           /\ (last.df = NoneP /\ last.cache) => self._data = last.pre._data

\* Everything but leaving the scope returns.
C19_OutsideScopeExit ==
    (last.op \in {"data", "groupby", "memory", "save", "enter", "body_data"})
        => /\ last.err = NoErr
           /\ ~IsTable(self._data)
           /\ (last.df # NoneP /\ last.op = "data") => self._data = last.df
           /\ (last.df = NoneP /\ last.cache) => self._data = last.pre._data

(***************************************************************************)
(* Claims about failing data() calls (SpecFail).                           *)
(***************************************************************************)
\* C20: a data() call that raises, whatever the table argument and the
\* cache flag, leaves the cache holding exactly the payload it held before,
\* and a data() call never changes the cache into a table that violates the
\* schema.
C20_FailedCallKeepsCache ==
    /\ (last.op = "data" /\ last.err # NoErr) => self._data = last.pre._data
    /\ (last.op = "data" /\ self._data # last.pre._data) => ~Violates(self, self._data)

\* A data() call that raises leaves the cache the same object, with the rows
\* and columns it had.
C20_SameRows ==
    (last.op = "data" /\ last.err # NoErr)
        => /\ IsTable(self._data) = IsTable(last.pre._data)
           /\ self._data.cols = last.pre._data.cols
           /\ self._data.rows = last.pre._data.rows
           /\ (last.df # NoneP \/ ~last.cache \/ last.err.kind = "RequiredColumnError")
                 => self._data = last.pre._data

====
